---------------------------- MODULE Spec2Model ----------------------------
(***************************************************************************)
(* Model of the Overleaf bridge of src/server.py: the tool handlers        *)
(* read_overleaf_file, update_overleaf_file, list_overleaf_files and       *)
(* update_overleaf_section, the helper clone_overleaf_repo, the wrapper    *)
(* run around the external git client, and the section-replacing regular   *)
(* expression.  Text is a sequence of one-character strings.               *)
(***************************************************************************)
EXTENDS Integers, Sequences, FiniteSets, TLC

VARIABLES
    OVERLEAF_GIT_URL,   \* server.py:14, None or a character sequence
    OVERLEAF_EMAIL,     \* server.py:15
    OVERLEAF_TOKEN,     \* server.py:16
    TMPDIRS,            \* globals()["_TMPDIRS"], server.py:62-64
    disk,               \* the temporary directories that exist on disk
    remote,             \* the files of the repository on the document host
    pc,                 \* where the tool call in progress is
    call,               \* the tool called and its arguments
    repo_dir,           \* the temporary directory of the call, once allocated
    auth_url,           \* server.py:81
    work,               \* the files of the working copy, once cloned
    head,               \* the files of the working copy's last commit
    log,                \* the git commands the call has run, with their results
    ret,                \* what the call returned, or the exception it raised
    ncalls,             \* tool calls started so far
    patch_in,           \* arguments of the section patch under test
    patch_out,          \* results of its successive applications
    patch_pc,
    threads             \* tool calls running at the same time, each at its step

env == <<OVERLEAF_GIT_URL, OVERLEAF_EMAIL, OVERLEAF_TOKEN>>
server == <<TMPDIRS, disk, remote, pc, call, repo_dir, auth_url, work, head,
            log, ret, ncalls>>
patch == <<patch_in, patch_out, patch_pc>>
conc == <<threads>>

vars == <<env, server, patch, conc>>

\* Python's None where a text (a tuple of characters) or a path may stand;
\* no text holds the character "None"
None == <<"None">>

\* no directory, no port
NoDir == 0
NoPort == -1

----------------------------------------------------------------------------
(* Characters and text                                                     *)

BS == "\\"
NL == "\n"

Letters ==
    {"a","b","c","d","e","f","g","h","i","j","k","l","m","n","o","p","q","r",
     "s","t","u","v","w","x","y","z",
     "A","B","C","D","E","F","G","H","I","J","K","L","M","N","O","P","Q","R",
     "S","T","U","V","W","X","Y","Z"}

Digits == {"0","1","2","3","4","5","6","7","8","9"}

\* str.isspace / the class \s of re on the characters used here
IsSpace(c) == c \in {" ", NL, "\t", "\r"}

\* the class \w of re
IsWord(c) == c \in Letters \cup Digits \cup {"_"}

RECURSIVE Flat(_)
Flat(ss) == IF ss = <<>> THEN <<>> ELSE Head(ss) \o Flat(Tail(ss))

RECURSIVE LStrip(_)
LStrip(s) == IF s # <<>> /\ IsSpace(Head(s)) THEN LStrip(Tail(s)) ELSE s

RECURSIVE RStrip(_)
RStrip(s) ==
    IF s # <<>> /\ IsSpace(s[Len(s)]) THEN RStrip(SubSeq(s, 1, Len(s) - 1)) ELSE s

\* str.strip()
Strip(s) == RStrip(LStrip(s))

Min(S) == CHOOSE x \in S : \A y \in S : x <= y
Max(S) == CHOOSE x \in S : \A y \in S : x >= y

----------------------------------------------------------------------------
(* The regular expression of update_overleaf_section                       *)

\* the characters re.escape puts a backslash before
SpecialChars ==
    {"(", ")", "[", "]", "{", "}", "?", "*", "+", "-", "|", "^", "$", BS, ".",
     "&", "~", "#", " ", "\t", NL, "\r"}

RECURSIVE re_escape(_)
re_escape(s) ==
    IF s = <<>> THEN <<>>
    ELSE (IF Head(s) \in SpecialChars THEN <<BS, Head(s)>> ELSE <<Head(s)>>)
         \o re_escape(Tail(s))

\* A pattern piece made of literals is matched at position i of t; the result
\* is the position after the match, 0 when it fails.  A backslash makes the
\* next pattern character a literal, an unescaped dot matches any character
\* (re.DOTALL), every other character matches itself.
RECURSIVE MatchPat(_, _, _, _)
MatchPat(t, i, pat, k) ==
    IF k > Len(pat) THEN i
    ELSE IF pat[k] = BS
    THEN IF k + 1 <= Len(pat) /\ i <= Len(t) /\ t[i] = pat[k + 1]
         THEN MatchPat(t, i + 1, pat, k + 2) ELSE 0
    ELSE IF pat[k] = "."
    THEN IF i <= Len(t) THEN MatchPat(t, i + 1, pat, k + 1) ELSE 0
    ELSE IF i <= Len(t) /\ t[i] = pat[k]
    THEN MatchPat(t, i + 1, pat, k + 1) ELSE 0

\* \b between t[p-1] and t[p]
WordBoundary(t, p) ==
    LET before == p - 1 >= 1 /\ p - 1 <= Len(t) /\ IsWord(t[p - 1])
        after  == p >= 1 /\ p <= Len(t) /\ IsWord(t[p])
    IN  before # after

s_section == <<"s","e","c","t","i","o","n">>
s_subsection == <<"s","u","b">> \o s_section
s_chapter == <<"c","h","a","p","t","e","r">>
s_cvsection == <<"c","v">> \o s_section
s_end_document == <<"e","n","d","{","d","o","c","u","m","e","n","t","}">>

\* the lookahead (?=(...)) at position e
LookAhead(t, e, heading_cmd_escaped) ==
    \/ \E alt \in {heading_cmd_escaped, s_section, s_subsection, s_chapter,
                   s_cvsection} :
          LET p == MatchPat(t, e, <<BS, BS>> \o alt, 1)
          IN  p # 0 /\ WordBoundary(t, p)
    \/ MatchPat(t, e, <<BS, BS, "e", "n", "d", BS, "{">>
                      \o <<"d","o","c","u","m","e","n","t">> \o <<BS, "}">>, 1) # 0

NoMatch == [start |-> 0, g1end |-> 0, stop |-> 0]

\* the number of characters \s* can take from position h
RECURSIVE SpaceRun(_, _)
SpaceRun(t, h) ==
    IF h <= Len(t) /\ IsSpace(t[h]) THEN 1 + SpaceRun(t, h + 1) ELSE 0

\* the body taken greedily, (.*) for (.*?)
SpaceAndBody_greedy(t, i, h, heading_cmd_escaped) ==
    LET stops == {e \in h..(Len(t) + 1) : LookAhead(t, e, heading_cmd_escaped)}
    IN  IF stops = {} THEN NoMatch
        ELSE [start |-> i, g1end |-> h + SpaceRun(t, h), stop |-> Max(stops)]

\* \s* is greedy and gives back one character at a time; (.*?) is lazy and
\* grows one character at a time until the lookahead holds.
SpaceAndBody(t, i, h, heading_cmd_escaped) ==
    LET ok == {w \in 0..SpaceRun(t, h) :
                 \E e \in (h + w)..(Len(t) + 1) : LookAhead(t, e, heading_cmd_escaped)}
    IN  IF ok = {} THEN NoMatch
        ELSE LET w == Max(ok)
                 e == Min({x \in (h + w)..(Len(t) + 1) :
                              LookAhead(t, x, heading_cmd_escaped)})
             IN  [start |-> i, g1end |-> h + w, stop |-> e]

\* the closing brace of the title left out of the pattern
TitleOn_open(t, i, p, heading_cmd_escaped, title_escaped) ==
    LET h == MatchPat(t, p, <<BS, "{">> \o title_escaped, 1)
    IN  IF h = 0 THEN NoMatch ELSE SpaceAndBody(t, i, h, heading_cmd_escaped)

\* \{title\} and what follows, from position p
TitleOn(t, i, p, heading_cmd_escaped, title_escaped) ==
    LET h == MatchPat(t, p, <<BS, "{">> \o title_escaped \o <<BS, "}">>, 1)
    IN  IF h = 0 THEN NoMatch ELSE SpaceAndBody(t, i, h, heading_cmd_escaped)

\* the whole pattern tried at position i: \\cmd, then \*? (greedy: with the
\* star first, without it when that fails), then the rest
MatchAt(t, i, heading_cmd_escaped, title_escaped) ==
    LET p == MatchPat(t, i, <<BS, BS>> \o heading_cmd_escaped, 1)
    IN  IF p = 0 THEN NoMatch
        ELSE LET starred ==
                     IF p <= Len(t) /\ t[p] = "*"
                     THEN TitleOn(t, i, p + 1, heading_cmd_escaped, title_escaped)
                     ELSE NoMatch
             IN  IF starred # NoMatch THEN starred
                 ELSE TitleOn(t, i, p, heading_cmd_escaped, title_escaped)

\* regex.search: the leftmost position at which the pattern matches
Search(t, heading_cmd_escaped, title_escaped) ==
    LET hits == {i \in 1..Len(t) :
                    MatchAt(t, i, heading_cmd_escaped, title_escaped) # NoMatch}
    IN  IF hits = {} THEN NoMatch
        ELSE MatchAt(t, Min(hits), heading_cmd_escaped, title_escaped)

\* replacer: group 1 followed by the stripped new body and one newline
replacer(t, m, new_section_body) ==
    SubSeq(t, m.start, m.g1end - 1) \o Strip(new_section_body) \o <<NL>>

\* lines 265-287: regex.subn(replacer, text, count=1)
subn(text, heading_command, section_title, new_section_body) ==
    LET m == Search(text, re_escape(heading_command), re_escape(section_title))
    IN  IF m = NoMatch THEN [new_text |-> text, count |-> 0]
        ELSE [new_text |-> SubSeq(text, 1, m.start - 1)
                           \o replacer(text, m, new_section_body)
                           \o SubSeq(text, m.stop, Len(text)),
              count |-> 1]

----------------------------------------------------------------------------
(* The state between tool calls                                            *)

Paths == {<<"main.tex">>, <<"notes", "new.tex">>}

NoRet == [kind |-> "none", type |-> "", text |-> "", detail |-> <<>>]

ServerIdle ==
    /\ TMPDIRS = <<>>
    /\ disk = {}
    /\ pc = "idle"
    /\ call = [tool |-> "", path |-> None, raw |-> FALSE, new_content |-> None,
               section_title |-> None, new_section_body |-> None,
               heading_command |-> None]
    /\ repo_dir = NoDir
    /\ auth_url = None
    /\ work = None
    /\ head = None
    /\ log = <<>>
    /\ ret = NoRet
    /\ ncalls = 0

PatchOff ==
    /\ patch_in = None
    /\ patch_out = <<>>
    /\ patch_pc = "off"

\* one tool call at a time
ThreadsOff == threads = <<>>

----------------------------------------------------------------------------
(* Inputs of the section patch                                             *)

MaxFrags == 3

s_part == <<"p","a","r","t">>

Heading(cmd, star, title) ==
    <<BS>> \o cmd \o (IF star THEN <<"*">> ELSE <<>>) \o <<"{">> \o title \o <<"}">>

Fragments ==
    { Heading(s_section, FALSE, <<"A">>),
      Heading(s_section, TRUE, <<"A">>),
      Heading(s_section, FALSE, <<"A", ".">>),
      Heading(s_part, FALSE, <<"A">>),
      <<BS>> \o s_end_document,
      <<BS>> \o s_section,
      <<"x">>,
      <<NL>> }

FragSeqs == UNION {[1..n -> Fragments] : n \in 0..MaxFrags}

Docs == {Flat(fs) : fs \in FragSeqs}

Bodies == { <<>>, <<NL, "y", " ", NL>>,
            <<"y">> \o Heading(s_subsection, FALSE, <<"A">>) \o <<"z">> }

\* heading command, title and new body of a call
PatchArgs ==
    [heading_command : {s_section}, section_title : {<<"A">>, <<"A", ".">>},
     new_section_body : Bodies]
    \cup [heading_command : {s_part}, section_title : {<<"A">>},
          new_section_body : Bodies]

InitPatch ==
    /\ OVERLEAF_GIT_URL = None
    /\ OVERLEAF_EMAIL = None
    /\ OVERLEAF_TOKEN = None
    /\ ServerIdle
    /\ remote = [p \in Paths |-> None]
    /\ \E d \in Docs, a \in PatchArgs :
          patch_in = [text |-> d, heading_command |-> a.heading_command,
                      section_title |-> a.section_title,
                      new_section_body |-> a.new_section_body]
    /\ patch_out = <<>>
    /\ patch_pc = "first"
    /\ ThreadsOff

\* the patch applied to the document, then once more to its own result
ApplyPatch ==
    /\ patch_pc \in {"first", "second"}
    /\ LET t == IF patch_out = <<>> THEN patch_in.text
                ELSE patch_out[Len(patch_out)].new_text
       IN  patch_out' = Append(patch_out,
                               subn(t, patch_in.heading_command,
                                    patch_in.section_title,
                                    patch_in.new_section_body))
    /\ patch_pc' = IF patch_pc = "first" THEN "second" ELSE "done"
    /\ UNCHANGED <<env, server, conc, patch_in>>

NextPatch == ApplyPatch

SpecPatch == InitPatch /\ [][NextPatch]_vars


----------------------------------------------------------------------------
(* Exceptions                                                              *)

\* an exception: its class, its message, and for a failed command the
\* command and what it printed
Exception(type, text) ==
    [type |-> type, text |-> text, cmd |-> <<>>, returncode |-> 0,
     stdout |-> "", stderr |-> ""]

\* nothing raised
NoError == Exception("", "")

----------------------------------------------------------------------------
(* urllib.parse as clone_overleaf_repo uses it.  The URLs considered have   *)
(* no query, fragment or parameters: what follows the authority is a path. *)

s_https == <<"h","t","t","p","s",":","/","/">>

startswith(s, prefix) ==
    Len(prefix) <= Len(s) /\ SubSeq(s, 1, Len(prefix)) = prefix

Falsy(v) == v = None \/ v = <<>>

\* the first position of character c in s, Len(s) + 1 when there is none
IndexOf(s, c) == Min({i \in 1..Len(s) : s[i] = c} \cup {Len(s) + 1})

\* the last position of character c in s, 0 when there is none
LastIndexOf(s, c) == Max({i \in 1..Len(s) : s[i] = c} \cup {0})

Contains(s, c) == \E i \in 1..Len(s) : s[i] = c

UpperCase ==
    <<"A","B","C","D","E","F","G","H","I","J","K","L","M","N","O","P","Q","R",
      "S","T","U","V","W","X","Y","Z">>
LowerCase ==
    <<"a","b","c","d","e","f","g","h","i","j","k","l","m","n","o","p","q","r",
      "s","t","u","v","w","x","y","z">>

\* str.lower(), one character
LowerChar(c) ==
    IF \E i \in 1..Len(UpperCase) : UpperCase[i] = c
    THEN LowerCase[CHOOSE i \in 1..Len(UpperCase) : UpperCase[i] = c]
    ELSE c

lower(s) == [i \in 1..Len(s) |-> LowerChar(s[i])]

DigitVal(c) ==
    CASE c = "0" -> 0 [] c = "1" -> 1 [] c = "2" -> 2 [] c = "3" -> 3
      [] c = "4" -> 4 [] c = "5" -> 5 [] c = "6" -> 6 [] c = "7" -> 7
      [] c = "8" -> 8 [] c = "9" -> 9

DigitChar(d) == <<"0","1","2","3","4","5","6","7","8","9">>[d + 1]

\* int(port)
RECURSIVE ToInt(_)
ToInt(ds) ==
    IF ds = <<>> THEN 0
    ELSE 10 * ToInt(SubSeq(ds, 1, Len(ds) - 1)) + DigitVal(ds[Len(ds)])

\* str(n) of a natural number
RECURSIVE ToDec(_)
ToDec(n) ==
    IF n < 10 THEN <<DigitChar(n)>> ELSE ToDec(n \div 10) \o <<DigitChar(n % 10)>>

\* urlparse of a URL that starts with https://: the authority runs to the
\* first "/", and brackets must come in pairs
urlparse(url) ==
    LET rest == SubSeq(url, Len(s_https) + 1, Len(url))
        cut == IndexOf(rest, "/")
        netloc == SubSeq(rest, 1, cut - 1)
    IN  IF Contains(netloc, "[") # Contains(netloc, "]")
        THEN [error |-> Exception("ValueError", "Invalid IPv6 URL")]
        ELSE [error |-> NoError, scheme |-> <<"h","t","t","p","s">>,
              netloc |-> netloc, path |-> SubSeq(rest, cut, Len(rest))]

\* SplitResult._hostinfo: (hostname, port) as written, port None when empty
hostinfo(netloc) ==
    LET hi == SubSeq(netloc, LastIndexOf(netloc, "@") + 1, Len(netloc))
        open == IndexOf(hi, "[")
    IN  IF open <= Len(hi)
        THEN LET bracketed == SubSeq(hi, open + 1, Len(hi))
                 close == IndexOf(bracketed, "]")
                 after == SubSeq(bracketed, close + 1, Len(bracketed))
                 colon == IndexOf(after, ":")
             IN  [hostname |-> SubSeq(bracketed, 1, close - 1),
                  port |-> SubSeq(after, colon + 1, Len(after))]
        ELSE LET colon == IndexOf(hi, ":")
             IN  [hostname |-> SubSeq(hi, 1, colon - 1),
                  port |-> SubSeq(hi, colon + 1, Len(hi))]

\* parsed.hostname: lower-cased, None when empty
hostname(parsed) ==
    LET h == hostinfo(parsed.netloc).hostname
    IN  IF h = <<>> THEN None ELSE lower(h)

\* parsed.port: None (NoPort), a number, or the ValueError it raises
port(parsed) ==
    LET p == hostinfo(parsed.netloc).port
    IN  IF p = <<>> THEN [error |-> NoError, value |-> NoPort]
        ELSE IF \E i \in 1..Len(p) : p[i] \notin Digits
        THEN [error |-> Exception("ValueError",
                                  "Port could not be cast to integer value")]
        ELSE IF ToInt(p) > 65535
        THEN [error |-> Exception("ValueError", "Port out of range 0-65535")]
        ELSE [error |-> NoError, value |-> ToInt(p)]

\* the characters quote never encodes
AlwaysSafe == Letters \cup Digits \cup {"_", ".", "-", "~"}

\* "%XX" of the other characters used in tokens here
PercentCode(c) ==
    CASE c = " " -> <<"%","2","0">>
      [] c = "#" -> <<"%","2","3">>
      [] c = "%" -> <<"%","2","5">>
      [] c = "/" -> <<"%","2","F">>
      [] c = ":" -> <<"%","3","A">>
      [] c = "?" -> <<"%","3","F">>
      [] c = "@" -> <<"%","4","0">>

\* quote(s, safe="")
RECURSIVE quote(_)
quote(s) ==
    IF s = <<>> THEN <<>>
    ELSE (IF Head(s) \in AlwaysSafe THEN <<Head(s)>> ELSE PercentCode(Head(s)))
         \o quote(Tail(s))

\* lines 77-79: the host, and the port "if parsed.port"
netloc_of(host, p) ==
    IF p # NoPort /\ p # 0 THEN host \o <<":">> \o ToDec(p) ELSE host

\* lines 73-77: user "git", password quote(OVERLEAF_TOKEN, safe="")
userinfo(token) == <<"g","i","t",":">> \o quote(token) \o <<"@">>

\* lines 67-81 of clone_overleaf_repo: the authenticated URL, or the
\* exception raised on the way
build_auth_url(url, token) ==
    LET parsed == urlparse(url)
    IN  IF parsed.error # NoError
        THEN [error |-> parsed.error]
        ELSE IF hostname(parsed) = None
        THEN [error |-> Exception("RuntimeError", "Invalid OVERLEAF_GIT_URL")]
        ELSE IF port(parsed).error # NoError
        THEN [error |-> port(parsed).error]
        ELSE [error |-> NoError,
              url |-> parsed.scheme \o <<":","/","/">>
                      \o userinfo(token)
                      \o netloc_of(hostname(parsed), port(parsed).value)
                      \o parsed.path]

----------------------------------------------------------------------------
(* _latex_preview                                                          *)

\* str.splitlines() for the line ends "\n", "\r" and "\r\n"
RECURSIVE splitlines(_)
splitlines(text) ==
    IF text = <<>> THEN <<>>
    ELSE LET ends == {i \in 1..Len(text) : text[i] \in {NL, "\r"}}
         IN  IF ends = {} THEN <<text>>
             ELSE LET e == Min(ends)
                      skip == IF text[e] = "\r" /\ e < Len(text) /\ text[e + 1] = NL
                              THEN 2 ELSE 1
                  IN  <<SubSeq(text, 1, e - 1)>>
                      \o splitlines(SubSeq(text, e + skip, Len(text)))

\* str.upper(), one character
UpperChar(c) ==
    IF \E i \in 1..Len(LowerCase) : LowerCase[i] = c
    THEN UpperCase[CHOOSE i \in 1..Len(LowerCase) : LowerCase[i] = c]
    ELSE c

upper(s) == [i \in 1..Len(s) |-> UpperChar(s[i])]

s_subsubsection == <<"s","u","b">> \o s_subsection

section_cmds == {s_section, s_subsection, s_subsubsection, s_cvsection, s_chapter}

\* the number of letters from position i on
RECURSIVE LetterRun(_, _)
LetterRun(s, i) ==
    IF i <= Len(s) /\ s[i] \in Letters THEN 1 + LetterRun(s, i + 1) ELSE 0

NoHeading == [matched |-> FALSE, cmd |-> <<>>, title |-> <<>>]

\* line 116: re.match(r"\\([a-zA-Z]+)\*?\{([^}]*)\}", stripped), groups 1 and 2
match_heading(stripped) ==
    IF stripped = <<>> \/ stripped[1] # BS THEN NoHeading
    ELSE LET n == LetterRun(stripped, 2)
             a == 2 + n
             b == IF a <= Len(stripped) /\ stripped[a] = "*" THEN a + 1 ELSE a
             closes == {j \in (b + 1)..Len(stripped) : stripped[j] = "}"}
         IN  IF n = 0 \/ b > Len(stripped) \/ stripped[b] # "{" \/ closes = {}
             THEN NoHeading
             ELSE [matched |-> TRUE, cmd |-> SubSeq(stripped, 2, a - 1),
                   title |-> SubSeq(stripped, b + 1, Min(closes) - 1)]

s_item == <<BS, "i","t","e","m">>

Dropped(stripped) ==
    \/ stripped = <<>>
    \/ startswith(stripped, <<"%">>)
    \/ startswith(stripped, <<BS, "d","o","c","u","m","e","n","t","c","l","a","s","s">>)
    \/ startswith(stripped, <<BS, "u","s","e","p","a","c","k","a","g","e">>)
    \/ startswith(stripped, <<BS, "b","e","g","i","n","{","d","o","c","u","m","e","n","t","}">>)
    \/ startswith(stripped, <<BS>> \o s_end_document)

\* the dashes counted on the title as written between the braces
preview_line_rawlen(line) ==
    LET stripped == Strip(line)
        m == match_heading(stripped)
    IN  IF Dropped(stripped) THEN <<>>
        ELSE IF m.matched /\ m.cmd \in section_cmds
        THEN LET title == Strip(m.title)
             IN  << <<>>, upper(title), [i \in 1..Len(m.title) |-> "-"] >>
        ELSE IF startswith(stripped, s_item)
        THEN << <<"-", " ">> \o LStrip(SubSeq(stripped, Len(s_item) + 1, Len(stripped))) >>
        ELSE << stripped >>

\* lines 103-131: what one line appends to out
preview_line(line) ==
    LET stripped == Strip(line)
        m == match_heading(stripped)
    IN  IF Dropped(stripped) THEN <<>>
        ELSE IF m.matched /\ m.cmd \in section_cmds
        THEN LET title == Strip(m.title)
             IN  << <<>>, upper(title), [i \in 1..Len(title) |-> "-"] >>
        ELSE IF startswith(stripped, s_item)
        THEN << <<"-", " ">> \o LStrip(SubSeq(stripped, Len(s_item) + 1, Len(stripped))) >>
        ELSE << stripped >>

RECURSIVE preview_lines(_)
preview_lines(lines) ==
    IF lines = <<>> THEN <<>>
    ELSE preview_line(Head(lines)) \o preview_lines(Tail(lines))

\* "\n".join(out)
RECURSIVE join(_)
join(out) ==
    IF out = <<>> THEN <<>>
    ELSE IF Len(out) = 1 THEN out[1]
    ELSE out[1] \o <<NL>> \o join(Tail(out))

\* lines 97-133
latex_preview(text) == Strip(join(preview_lines(splitlines(text))))

----------------------------------------------------------------------------
(* The external git client and the wrapper run                             *)

Ok == [returncode |-> 0, stdout |-> "", stderr |-> ""]

\* two ways for a command to fail, told apart by what it printed
Failures ==
    { [returncode |-> 1, stdout |-> "out1", stderr |-> "err1"],
      [returncode |-> 128, stdout |-> "out2", stderr |-> "err2"] }

NothingToCommit ==
    [returncode |-> 1, stdout |-> "nothing to commit, working tree clean",
     stderr |-> ""]

\* lines 30-36: the RuntimeError run raises, with the command and all it printed
CommandFailed(cmd, result) ==
    [type |-> "RuntimeError", text |-> "Command failed", cmd |-> cmd,
     returncode |-> result.returncode, stdout |-> result.stdout,
     stderr |-> result.stderr]

\* a handler's return value: a string made of a fixed text and the values
\* formatted into it, or (type "list") a list of strings
Returned(text, detail) ==
    [kind |-> "return", type |-> "str", text |-> text, detail |-> detail]
ReturnedList(text, detail) ==
    [kind |-> "return", type |-> "list", text |-> text, detail |-> detail]

\* the except clauses of the handlers around clone_overleaf_repo: the
\* exception's message is formatted into the string returned
clone_failed(tool, e) ==
    IF tool = "list_overleaf_files"
    THEN ReturnedList("Git clone failed", e)
    ELSE Returned("Git clone failed", e)

\* an exception of a handler that no except clause catches
uncaught(e) == [kind |-> "raise", type |-> e.type, text |-> e.text, detail |-> e]

Logged(cmd, result) == [cmd |-> cmd, cwd |-> repo_dir, result |-> result]

----------------------------------------------------------------------------
(* Tool calls                                                              *)

MaxCalls == 2

main_tex == <<"main.tex">>
new_tex == <<"notes", "new.tex">>

doc_sections ==
    Heading(s_section, FALSE, <<"A">>) \o <<NL, "x", NL>>
    \o Heading(s_section, FALSE, <<"A", ".">>) \o <<NL, "x", NL>>
    \o <<BS>> \o s_end_document \o <<NL>>

doc_plain == <<"x", NL>>

\* a document with the line ends of a file edited on Windows
doc_crlf ==
    Heading(s_section, FALSE, <<"A">>) \o <<"\r", NL, "x", "\r", NL>>
    \o <<BS>> \o s_end_document \o <<"\r", NL>>

\* what the repository holds when the server starts
Repos ==
    { [p \in Paths |-> IF p = main_tex THEN doc_sections ELSE None],
      [p \in Paths |-> IF p = main_tex THEN doc_plain ELSE doc_sections],
      [p \in Paths |-> IF p = main_tex THEN doc_crlf ELSE None] }

\* the paths a read is asked for: files, and a directory of the second
\* repository
ReadPaths == Paths \cup {<<"notes">>}

NoArgs ==
    [tool |-> "", path |-> None, raw |-> FALSE, new_content |-> None,
     section_title |-> None, new_section_body |-> None, heading_command |-> None]

Calls ==
    { [NoArgs EXCEPT !.tool = "read_overleaf_file", !.path = p, !.raw = r] :
        p \in ReadPaths, r \in BOOLEAN }
    \cup { [NoArgs EXCEPT !.tool = "list_overleaf_files"] }
    \cup { [NoArgs EXCEPT !.tool = "update_overleaf_file", !.path = p,
                          !.new_content = c] :
             p \in Paths, c \in {doc_plain} }
    \cup { [NoArgs EXCEPT !.tool = "update_overleaf_section", !.path = p,
                          !.section_title = t, !.new_section_body = b,
                          !.heading_command = s_section] :
             p \in Paths, t \in {<<"A">>, <<"B">>},
             b \in {<<>>, <<"x">>, <<"y">>} }

Urls ==
    { None, <<>>,
      <<"h","t","t","p",":","/","/","h",".","i","o","/","p">>,
      s_https \o <<"/","p">>,
      s_https \o <<"h",".","i","o","/","p">> }

Tokens == { None, <<>>, <<"t", " ", "k">> }

Emails == { None, <<"m","e","@","h",".","i","o">> }

Init ==
    /\ OVERLEAF_GIT_URL \in Urls
    /\ OVERLEAF_TOKEN \in Tokens
    /\ OVERLEAF_EMAIL \in Emails
    /\ remote \in Repos
    /\ ServerIdle
    /\ PatchOff
    /\ ThreadsOff

\* a tool is called: the handler starts with clone_overleaf_repo()
Invoke ==
    /\ pc = "idle"
    /\ ncalls < MaxCalls
    /\ \E c \in Calls : call' = c
    /\ ncalls' = ncalls + 1
    /\ pc' = "clone_check"
    /\ UNCHANGED <<env, patch, conc, TMPDIRS, disk, remote, repo_dir, auth_url, work, head,
                   log, ret>>

\* the test of the scheme left out
clone_check_anyscheme ==
    /\ pc = "clone_check"
    /\ IF Falsy(OVERLEAF_GIT_URL) \/ Falsy(OVERLEAF_TOKEN)
       THEN /\ ret' = clone_failed(call.tool,
                          Exception("RuntimeError",
                                    "Missing Overleaf configuration"))
            /\ pc' = "done"
       ELSE /\ ret' = ret
            /\ pc' = "clone_mktemp"
    /\ UNCHANGED <<env, patch, conc, TMPDIRS, disk, remote, call, repo_dir, auth_url,
                   work, head, log, ncalls>>

\* lines 50-57; the RuntimeError is caught by the handler's except clause
clone_check ==
    /\ pc = "clone_check"
    /\ IF Falsy(OVERLEAF_GIT_URL) \/ Falsy(OVERLEAF_TOKEN)
       THEN /\ ret' = clone_failed(call.tool,
                          Exception("RuntimeError",
                                    "Missing Overleaf configuration"))
            /\ pc' = "done"
       ELSE IF ~startswith(OVERLEAF_GIT_URL, s_https)
       THEN /\ ret' = clone_failed(call.tool,
                          Exception("RuntimeError",
                                    "OVERLEAF_GIT_URL must start with https://"))
            /\ pc' = "done"
       ELSE /\ ret' = ret
            /\ pc' = "clone_mktemp"
    /\ UNCHANGED <<env, patch, conc, TMPDIRS, disk, remote, call, repo_dir, auth_url,
                   work, head, log, ncalls>>

\* lines 59-81: the temporary directory is made and kept in _TMPDIRS, then
\* the authenticated URL is built
clone_mktemp ==
    /\ pc = "clone_mktemp"
    /\ LET tmpdir == Len(TMPDIRS) + 1
           built == build_auth_url(OVERLEAF_GIT_URL, OVERLEAF_TOKEN)
       IN  /\ disk' = disk \cup {tmpdir}
           /\ TMPDIRS' = Append(TMPDIRS, tmpdir)
           /\ repo_dir' = tmpdir
           /\ IF built.error # NoError
              THEN /\ ret' = clone_failed(call.tool, built.error)
                   /\ pc' = "done"
                   /\ auth_url' = auth_url
              ELSE /\ auth_url' = built.url
                   /\ pc' = "clone_run"
                   /\ ret' = ret
    /\ UNCHANGED <<env, patch, conc, remote, call, work, head, log, ncalls>>

\* a listing that goes on to publish
AfterClone_publish(tool) ==
    CASE tool = "read_overleaf_file" -> "read"
      [] tool = "update_overleaf_file" -> "write"
      [] tool = "list_overleaf_files" -> "config_name"
      [] tool = "update_overleaf_section" -> "section"

AfterClone(tool) ==
    CASE tool = "read_overleaf_file" -> "read"
      [] tool = "update_overleaf_file" -> "write"
      [] tool = "list_overleaf_files" -> "list"
      [] tool = "update_overleaf_section" -> "section"

\* the clone's failure reported without what git printed
clone_run_quiet ==
    /\ pc = "clone_run"
    /\ \E result \in {Ok} \cup Failures :
          LET cmd == <<"git", "clone", auth_url, repo_dir>>
          IN  /\ log' = Append(log, Logged(cmd, result))
              /\ IF result.returncode # 0
                 THEN /\ ret' = clone_failed(call.tool,
                                             CommandFailed(cmd, [result EXCEPT
                                                 !.stdout = "", !.stderr = ""]))
                      /\ pc' = "done"
                      /\ work' = work
                      /\ head' = head
                 ELSE /\ work' = remote
                      /\ head' = remote
                      /\ pc' = AfterClone(call.tool)
                      /\ ret' = ret
    /\ UNCHANGED <<env, patch, conc, TMPDIRS, disk, remote, call, repo_dir, auth_url,
                   ncalls>>

\* line 84: run(["git", "clone", auth_url, str(repo_dir)])
clone_run ==
    /\ pc = "clone_run"
    /\ \E result \in {Ok} \cup Failures :
          LET cmd == <<"git", "clone", auth_url, repo_dir>>
          IN  /\ log' = Append(log, Logged(cmd, result))
              /\ IF result.returncode # 0
                 THEN /\ ret' = clone_failed(call.tool, CommandFailed(cmd, result))
                      /\ pc' = "done"
                      /\ work' = work
                      /\ head' = head
                 ELSE /\ work' = remote
                      /\ head' = remote
                      /\ pc' = AfterClone(call.tool)
                      /\ ret' = ret
    /\ UNCHANGED <<env, patch, conc, TMPDIRS, disk, remote, call, repo_dir, auth_url,
                   ncalls>>

\* what git keeps in the working copy
GitFiles == {<<".git", "HEAD">>, <<".git", "config">>}

\* the files under repo_dir: the working copy and the .git directory
Tree == {p \in Paths : work[p] # None} \cup GitFiles

\* a directory of the tree: a proper prefix of the path of one of its files
is_dir(p) == \E q \in Tree : Len(q) > Len(p) /\ SubSeq(q, 1, Len(p)) = p

\* Path.exists(): true of files and of directories
exists(p) == p \in Tree \/ is_dir(p)

\* Path.read_text(encoding="utf-8") opens the file in text mode with universal
\* newlines: "\r\n" and a lone "\r" are read as "\n"
RECURSIVE read_text(_)
read_text(data) ==
    IF data = <<>> THEN <<>>
    ELSE IF Head(data) = "\r"
    THEN <<NL>> \o read_text(IF Len(data) >= 2 /\ data[2] = NL
                             THEN Tail(Tail(data)) ELSE Tail(data))
    ELSE <<Head(data)>> \o read_text(Tail(data))

\* os.linesep where the server runs (POSIX)
linesep == <<NL>>

\* Path.write_text(data, encoding="utf-8") opens the file in text mode: each
\* "\n" is written as os.linesep
write_text(data) ==
    Flat([i \in 1..Len(data) |-> IF data[i] = NL THEN linesep ELSE <<data[i]>>])

\* lines 157-167 of read_overleaf_file; read_text of a directory raises
\* IsADirectoryError, which no except clause catches
read_overleaf_file ==
    /\ pc = "read"
    /\ ret' = IF ~exists(call.path)
              THEN Returned("File does not exist in the Overleaf project.",
                            call.path)
              ELSE IF is_dir(call.path)
              THEN uncaught(Exception("IsADirectoryError", "Is a directory"))
              ELSE LET content == read_text(work[call.path])
                   IN  IF call.raw THEN Returned("{content}", content)
                       ELSE Returned("{preview}", latex_preview(content))
    /\ pc' = "done"
    /\ UNCHANGED <<env, patch, conc, TMPDIRS, disk, remote, call, repo_dir, auth_url,
                   work, head, log, ncalls>>

Perms(S) ==
    {f \in [1..Cardinality(S) -> S] : \A i, j \in 1..Cardinality(S) : i # j => f[i] # f[j]}

RECURSIVE WalkDirs(_, _)
WalkDirs(dirs, files_of) ==
    IF dirs = <<>> THEN <<>> ELSE files_of[Head(dirs)] \o WalkDirs(Tail(dirs), files_of)

\* os.walk(repo_dir), top down: the files of the root, then each directory
\* other than .git with its files; entries come in the order the file system
\* lists them.  Paths here are at most two levels deep.
Walks ==
    LET root == {p \in Tree : Len(p) = 1}
        dirs == {p[1] : p \in {q \in Tree : Len(q) = 2}} \ {".git"}
        in(d) == {p \in Tree : Len(p) = 2 /\ p[1] = d}
        orders == {f \in [dirs -> UNION {Perms(in(d)) : d \in dirs}] :
                     \A d \in dirs : f[d] \in Perms(in(d))}
    IN  {r \o WalkDirs(ds, f) : r \in Perms(root), ds \in Perms(dirs), f \in orders}

\* lines 223-235 of list_overleaf_files
list_overleaf_files ==
    /\ pc = "list"
    /\ \E file_paths \in Walks : ret' = ReturnedList("{file_paths}", file_paths)
    /\ pc' = "done"
    /\ UNCHANGED <<env, patch, conc, TMPDIRS, disk, remote, call, repo_dir, auth_url,
                   work, head, log, ncalls>>

\* lines 185-188 of update_overleaf_file
update_overleaf_file ==
    /\ pc = "write"
    /\ work' = [work EXCEPT ![call.path] = write_text(call.new_content)]
    /\ pc' = "config_name"
    /\ UNCHANGED <<env, patch, conc, TMPDIRS, disk, remote, call, repo_dir, auth_url,
                   head, log, ret, ncalls>>

\* the test of count left out: the text is written back and published
update_overleaf_section_nocount ==
    /\ pc = "section"
    /\ IF work[call.path] = None
       THEN /\ ret' = Returned("File does not exist in the Overleaf project.",
                                 call.path)
            /\ pc' = "done"
            /\ work' = work
       ELSE /\ work' = [work EXCEPT ![call.path] =
                            write_text(subn(read_text(work[call.path]),
                                            call.heading_command,
                                            call.section_title,
                                            call.new_section_body).new_text)]
            /\ pc' = "config_name"
            /\ ret' = ret
    /\ UNCHANGED <<env, patch, conc, TMPDIRS, disk, remote, call, repo_dir, auth_url,
                   head, log, ncalls>>

\* lines 259-295 of update_overleaf_section
update_overleaf_section ==
    /\ pc = "section"
    /\ IF work[call.path] = None
       THEN /\ ret' = Returned("File does not exist in the Overleaf project.",
                                 call.path)
            /\ pc' = "done"
            /\ work' = work
       ELSE LET r == subn(read_text(work[call.path]), call.heading_command,
                          call.section_title, call.new_section_body)
            IN  IF r.count = 0
                THEN /\ ret' = Returned("Section not found. No changes made.",
                                         <<call.section_title,
                                           call.heading_command, call.path>>)
                     /\ pc' = "done"
                     /\ work' = work
                ELSE /\ work' = [work EXCEPT ![call.path] = write_text(r.new_text)]
                     /\ pc' = "config_name"
                     /\ ret' = ret
    /\ UNCHANGED <<env, patch, conc, TMPDIRS, disk, remote, call, repo_dir, auth_url,
                   head, log, ncalls>>

\* run(cmd, cwd=repo_dir) where the handler has no except clause around it:
\* on a non-zero exit the RuntimeError leaves the handler
RunUncaught(cmd, result, next) ==
    /\ log' = Append(log, Logged(cmd, result))
    /\ IF result.returncode # 0
       THEN /\ ret' = uncaught(CommandFailed(cmd, result))
            /\ pc' = "done"
       ELSE /\ ret' = ret
            /\ pc' = next

\* lines 192 and 298
git_config_name ==
    /\ pc = "config_name"
    /\ \E result \in {Ok} \cup Failures :
          RunUncaught(<<"git", "config", "user.name", "Overleaf MCP Bot">>,
                      result, "config_email")
    /\ UNCHANGED <<env, patch, conc, TMPDIRS, disk, remote, call, repo_dir, auth_url,
                   work, head, ncalls>>

default_email ==
    <<"o","v","e","r","l","e","a","f","-","m","c","p","@",
      "e","x","a","m","p","l","e",".","c","o","m">>

\* lines 191-193 and 297-299
git_config_email ==
    /\ pc = "config_email"
    /\ LET email == IF Falsy(OVERLEAF_EMAIL) THEN default_email ELSE OVERLEAF_EMAIL
       IN  \E result \in {Ok} \cup Failures :
              RunUncaught(<<"git", "config", "user.email", email>>, result, "add")
    /\ UNCHANGED <<env, patch, conc, TMPDIRS, disk, remote, call, repo_dir, auth_url,
                   work, head, ncalls>>

\* everything in the working copy staged, not the one path
git_add_all ==
    /\ pc = "add"
    /\ \E result \in {Ok} \cup Failures :
          RunUncaught(<<"git", "add", <<".">>>>, result, "commit")
    /\ UNCHANGED <<env, patch, conc, TMPDIRS, disk, remote, call, repo_dir, auth_url,
                   work, head, ncalls>>

\* lines 196 and 301
git_add ==
    /\ pc = "add"
    /\ \E result \in {Ok} \cup Failures :
          RunUncaught(<<"git", "add", call.path>>, result, "commit")
    /\ UNCHANGED <<env, patch, conc, TMPDIRS, disk, remote, call, repo_dir, auth_url,
                   work, head, ncalls>>

\* lines 174 and 303-304
commit_message ==
    IF call.tool = "update_overleaf_file"
    THEN <<"Update file via Overleaf MCP">>
    ELSE <<"Update section", call.section_title, "in", call.path>>

no_changes ==
    IF call.tool = "update_overleaf_file"
    THEN Returned("No changes to commit; file is unchanged.", <<>>)
    ELSE Returned("No changes to commit after section replacement.", <<>>)

\* what git commit can answer: with nothing staged it exits 1; with a change
\* staged it commits, or fails for another reason
CommitResults == IF work = head THEN {NothingToCommit} \cup Failures
                 ELSE {Ok} \cup Failures

\* a failed commit taken for a commit: the push is made all the same
git_commit_then_push ==
    /\ pc = "commit"
    /\ \E result \in CommitResults :
          LET cmd == <<"git", "commit", "-m", commit_message>>
          IN  /\ log' = Append(log, Logged(cmd, result))
              /\ ret' = ret
              /\ pc' = "push_main"
              /\ head' = IF result.returncode = 0 THEN work ELSE head
    /\ UNCHANGED <<env, patch, conc, TMPDIRS, disk, remote, call, repo_dir, auth_url,
                   work, ncalls>>

\* lines 197-200 and 306-309: any RuntimeError of the commit is caught
git_commit ==
    /\ pc = "commit"
    /\ \E result \in CommitResults :
          LET cmd == <<"git", "commit", "-m", commit_message>>
          IN  /\ log' = Append(log, Logged(cmd, result))
              /\ IF result.returncode # 0
                 THEN /\ ret' = no_changes
                      /\ pc' = "done"
                      /\ head' = head
                 ELSE /\ ret' = ret
                      /\ pc' = "push_main"
                      /\ head' = work
    /\ UNCHANGED <<env, patch, conc, TMPDIRS, disk, remote, call, repo_dir, auth_url,
                   work, ncalls>>

success ==
    IF call.tool = "update_overleaf_file"
    THEN Returned("Successfully updated and pushed to Overleaf.", <<call.path>>)
    ELSE Returned("Successfully updated section and pushed to Overleaf.",
                  <<call.section_title, call.path>>)

\* the first push with no except clause and no second push
git_push_main_only ==
    /\ pc = "push_main"
    /\ \E result \in {Ok} \cup Failures :
          /\ log' = Append(log, Logged(<<"git", "push", "origin", "main">>, result))
          /\ IF result.returncode # 0
             THEN /\ ret' = uncaught(CommandFailed(<<"git", "push", "origin", "main">>,
                                                   result))
                  /\ remote' = remote
             ELSE /\ remote' = head
                  /\ ret' = success
          /\ pc' = "done"
    /\ UNCHANGED <<env, patch, conc, TMPDIRS, disk, call, repo_dir, auth_url, work, head, ncalls>>

\* lines 203-205 and 311-313: the RuntimeError of the first push is caught
git_push_main ==
    /\ pc = "push_main"
    /\ \E result \in {Ok} \cup Failures :
          /\ log' = Append(log, Logged(<<"git", "push", "origin", "main">>, result))
          /\ IF result.returncode # 0
             THEN /\ pc' = "push_master"
                  /\ ret' = ret
                  /\ remote' = remote
             ELSE /\ remote' = head
                  /\ ret' = success
                  /\ pc' = "done"
    /\ UNCHANGED <<env, patch, conc, TMPDIRS, disk, call, repo_dir, auth_url, work, head, ncalls>>

\* the second push failing with the first push's error raised again
git_push_master_first_error ==
    /\ pc = "push_master"
    /\ \E result \in {Ok} \cup Failures :
          /\ log' = Append(log, Logged(<<"git", "push", "origin", "master">>, result))
          /\ IF result.returncode # 0
             THEN /\ ret' = uncaught(CommandFailed(log[Len(log)].cmd,
                                                   log[Len(log)].result))
                  /\ remote' = remote
             ELSE /\ remote' = head
                  /\ ret' = success
          /\ pc' = "done"
    /\ UNCHANGED <<env, patch, conc, TMPDIRS, disk, call, repo_dir, auth_url, work, head, ncalls>>

\* lines 206-208 and 314-319: the second push has no except clause around it
git_push_master ==
    /\ pc = "push_master"
    /\ \E result \in {Ok} \cup Failures :
          /\ log' = Append(log, Logged(<<"git", "push", "origin", "master">>, result))
          /\ IF result.returncode # 0
             THEN /\ ret' = uncaught(CommandFailed(<<"git", "push", "origin", "master">>,
                                                   result))
                  /\ remote' = remote
             ELSE /\ remote' = head
                  /\ ret' = success
          /\ pc' = "done"
    /\ UNCHANGED <<env, patch, conc, TMPDIRS, disk, call, repo_dir, auth_url, work, head, ncalls>>

\* the handler has ended; its locals are gone, the module globals stay
Finish ==
    /\ pc = "done"
    /\ pc' = "idle"
    /\ call' = NoArgs
    /\ repo_dir' = NoDir
    /\ auth_url' = None
    /\ work' = None
    /\ head' = None
    /\ log' = <<>>
    /\ ret' = NoRet
    /\ UNCHANGED <<env, patch, conc, TMPDIRS, disk, remote, ncalls>>

Next ==
    \/ Invoke
    \/ clone_check
    \/ clone_mktemp
    \/ clone_run
    \/ read_overleaf_file
    \/ list_overleaf_files
    \/ update_overleaf_file
    \/ update_overleaf_section
    \/ git_config_name
    \/ git_config_email
    \/ git_add
    \/ git_commit
    \/ git_push_main
    \/ git_push_master
    \/ Finish

Spec == Init /\ [][Next]_vars

----------------------------------------------------------------------------
(* clone_overleaf_repo on its own, over a wider set of URLs and tokens     *)

UrlUsers == { <<>>, <<"u", "@">> }
UrlHosts == { <<>>, <<"h",".","i","o">>, <<"H",".","i","o">>,
              <<"[",":",":","1","]">> }
UrlPorts == { <<>>, <<":">>, <<":","8">>, <<":","0","8">>, <<":","0">>,
              <<":","x">>, <<":","9","9","9","9","9">> }
UrlPaths == { <<>>, <<"/","p">> }

WideUrls == { s_https \o u \o h \o p \o q :
                u \in UrlUsers, h \in UrlHosts, p \in UrlPorts, q \in UrlPaths }

WideTokens == { <<"t">>, <<"t", " ", "k">>, <<"a", "/", "@">>, <<"%", ":", "~">> }

InitUrl ==
    /\ OVERLEAF_GIT_URL \in WideUrls
    /\ OVERLEAF_TOKEN \in WideTokens
    /\ OVERLEAF_EMAIL = None
    /\ remote = [p \in Paths |-> None]
    /\ TMPDIRS = <<>>
    /\ disk = {}
    /\ pc = "clone_check"
    /\ call = [NoArgs EXCEPT !.tool = "list_overleaf_files"]
    /\ repo_dir = NoDir
    /\ auth_url = None
    /\ work = None
    /\ head = None
    /\ log = <<>>
    /\ ret = NoRet
    /\ ncalls = 1
    /\ PatchOff
    /\ ThreadsOff

NextUrl == clone_check \/ clone_mktemp

SpecUrl == InitUrl /\ [][NextUrl]_vars

----------------------------------------------------------------------------
(* read_overleaf_file with raw false, after the clone, over a wider set of *)
(* documents                                                               *)

MaxLines == 2

\* lines a LaTeX file is made of, some with white space around them
PreviewLines ==
    { <<>>,
      <<" ", "x", " ">>,
      <<"%", "c">>,
      <<BS, "d","o","c","u","m","e","n","t","c","l","a","s","s", "{", "a", "}">>,
      <<" ", BS, "u","s","e","p","a","c","k","a","g","e", "{", "a", "}">>,
      <<BS, "b","e","g","i","n","{","d","o","c","u","m","e","n","t","}">>,
      <<BS>> \o s_end_document \o <<"x">>,
      <<BS>> \o s_section \o <<"{", " ", "a", " ", "b", " ", "}">>,
      <<BS>> \o s_subsubsection \o <<"*", "{", "a", "}", "x">>,
      <<BS>> \o s_chapter \o <<"{", "a", "}">>,
      <<BS>> \o s_cvsection \o <<"{", "}">>,
      <<BS>> \o s_part \o <<"{", "a", "}">>,
      <<BS>> \o s_section \o <<"{", "a">>,
      s_item \o <<" ", " ", "y">>,
      s_item }

PreviewDocs ==
    { join(ls) : ls \in UNION {[1..n -> PreviewLines] : n \in 0..MaxLines} }

\* the handler has cloned a repository whose main.tex is one of the documents
InitPreview ==
    /\ OVERLEAF_GIT_URL = s_https \o <<"h",".","i","o","/","p">>
    /\ OVERLEAF_TOKEN = <<"t">>
    /\ OVERLEAF_EMAIL = None
    /\ \E d \in PreviewDocs :
          remote = [p \in Paths |-> IF p = main_tex THEN d ELSE None]
    /\ work = remote
    /\ head = remote
    /\ TMPDIRS = <<1>>
    /\ disk = {1}
    /\ repo_dir = 1
    /\ auth_url = build_auth_url(OVERLEAF_GIT_URL, OVERLEAF_TOKEN).url
    /\ call = [NoArgs EXCEPT !.tool = "read_overleaf_file", !.path = main_tex]
    /\ log = << [cmd |-> <<"git", "clone", auth_url, repo_dir>>, cwd |-> repo_dir,
                 result |-> Ok] >>
    /\ pc = "read"
    /\ ret = NoRet
    /\ ncalls = 1
    /\ PatchOff
    /\ ThreadsOff

NextPreview == read_overleaf_file \/ Finish

SpecPreview == InitPreview /\ [][NextPreview]_vars

----------------------------------------------------------------------------
(* Tool calls running at the same time: lines 59-64 of clone_overleaf_repo *)
(* step by step.  Here TMPDIRS is Undefined until the name _TMPDIRS is in   *)
(* globals(), and then holds the calls whose TemporaryDirectory object is  *)
(* in the list.                                                            *)

NThreads == 2

\* the name _TMPDIRS is not in globals(); no list holds NoDir
Undefined == <<NoDir>>

Threads == 1..NThreads

\* names tempfile can give a directory
DirNames == 1..NThreads

\* a call: its step, the directory of its TemporaryDirectory object, whether
\* the local variable tmpdir still refers to the object, and whether the
\* object's finalizer has run
ThreadStart == [pc |-> "mktemp", tmpdir |-> NoDir, local |-> FALSE, cleaned |-> FALSE]

InitConc ==
    /\ OVERLEAF_GIT_URL = s_https \o <<"h",".","i","o","/","p">>
    /\ OVERLEAF_TOKEN = <<"t">>
    /\ OVERLEAF_EMAIL = None
    /\ remote = [p \in Paths |-> None]
    /\ TMPDIRS = Undefined
    /\ disk = {}
    /\ pc = "idle"
    /\ call = NoArgs
    /\ repo_dir = NoDir
    /\ auth_url = None
    /\ work = None
    /\ head = None
    /\ log = <<>>
    /\ ret = NoRet
    /\ ncalls = 0
    /\ PatchOff
    /\ threads = [t \in Threads |-> ThreadStart]

\* line 60: tempfile makes a directory under a name not in use
t_mktemp(t) ==
    /\ threads[t].pc = "mktemp"
    /\ \E name \in DirNames \ disk :
          /\ disk' = disk \cup {name}
          /\ threads' = [threads EXCEPT ![t] =
                            [pc |-> "check", tmpdir |-> name, local |-> TRUE,
                             cleaned |-> FALSE]]
    /\ UNCHANGED <<env, patch, TMPDIRS, remote, pc, call, repo_dir, auth_url,
                   work, head, log, ret, ncalls>>

\* line 62: if "_TMPDIRS" not in globals()
t_check(t) ==
    /\ threads[t].pc = "check"
    /\ threads' = [threads EXCEPT ![t].pc =
                      IF TMPDIRS = Undefined THEN "init" ELSE "append"]
    /\ UNCHANGED <<env, server, patch>>

\* line 63: globals()["_TMPDIRS"] = [], whatever the name holds by now
t_init(t) ==
    /\ threads[t].pc = "init"
    /\ TMPDIRS' = <<>>
    /\ threads' = [threads EXCEPT ![t].pc = "append"]
    /\ UNCHANGED <<env, patch, disk, remote, pc, call, repo_dir, auth_url,
                   work, head, log, ret, ncalls>>

\* line 64: globals()["_TMPDIRS"].append(tmpdir)
t_append(t) ==
    /\ threads[t].pc = "append"
    /\ TMPDIRS # Undefined
    /\ TMPDIRS' = Append(TMPDIRS, t)
    /\ threads' = [threads EXCEPT ![t].pc = "return"]
    /\ UNCHANGED <<env, patch, disk, remote, pc, call, repo_dir, auth_url,
                   work, head, log, ret, ncalls>>

\* lines 66-86: clone_overleaf_repo returns repo_dir; its local tmpdir is gone
t_return(t) ==
    /\ threads[t].pc = "return"
    /\ threads' = [threads EXCEPT ![t].pc = "use", ![t].local = FALSE]
    /\ UNCHANGED <<env, server, patch>>

\* the handler works in repo_dir and produces its result
t_use(t) ==
    /\ threads[t].pc = "use"
    /\ threads' = [threads EXCEPT ![t].pc = "done"]
    /\ UNCHANGED <<env, server, patch>>

\* the list of _TMPDIRS holds the object of call t
InTMPDIRS(t) == TMPDIRS # Undefined /\ \E i \in 1..Len(TMPDIRS) : TMPDIRS[i] = t

\* a TemporaryDirectory object nothing refers to is finalized, at once or
\* later: its directory is removed
t_finalize(t) ==
    /\ threads[t].tmpdir # NoDir
    /\ ~threads[t].local
    /\ ~threads[t].cleaned
    /\ ~InTMPDIRS(t)
    /\ disk' = disk \ {threads[t].tmpdir}
    /\ threads' = [threads EXCEPT ![t].cleaned = TRUE]
    /\ UNCHANGED <<env, patch, TMPDIRS, remote, pc, call, repo_dir, auth_url,
                   work, head, log, ret, ncalls>>

NextConc ==
    \E t \in Threads :
        \/ t_mktemp(t)
        \/ t_check(t)
        \/ t_init(t)
        \/ t_append(t)
        \/ t_return(t)
        \/ t_use(t)
        \/ t_finalize(t)

SpecConc == InitConc /\ [][NextConc]_vars

----------------------------------------------------------------------------
(* Properties of the section patch, stated on positions of the text        *)

HasAt(t, i, lit) ==
    /\ i >= 1
    /\ i + Len(lit) - 1 <= Len(t)
    /\ SubSeq(t, i, i + Len(lit) - 1) = lit

\* the length of the heading \cmd{title} or \cmd*{title} written at i, else 0
ExactHeadingLen(t, i, cmd, title) ==
    IF HasAt(t, i, Heading(cmd, FALSE, title)) THEN Len(Heading(cmd, FALSE, title))
    ELSE IF HasAt(t, i, Heading(cmd, TRUE, title)) THEN Len(Heading(cmd, TRUE, title))
    ELSE 0

ExactHeadings(t, cmd, title) ==
    {i \in 1..Len(t) : ExactHeadingLen(t, i, cmd, title) > 0}

\* a heading of the command at i, whatever its title
CommandAt(t, i, cmd) ==
    HasAt(t, i, <<BS>> \o cmd \o <<"{">>) \/ HasAt(t, i, <<BS>> \o cmd \o <<"*", "{">>)

\* a heading-level marker at e: one of the sectioning commands, not followed
\* by a further word character, or the end-of-document marker
MarkerAt(t, e, cmd) ==
    \/ \E name \in {cmd, s_section, s_subsection, s_chapter, s_cvsection} :
          /\ HasAt(t, e, <<BS>> \o name)
          /\ (e + Len(name) + 1 > Len(t) \/ ~IsWord(t[e + Len(name) + 1]))
    \/ HasAt(t, e, <<BS>> \o s_end_document)

\* the text the k-th application was given
PatchInput(k) == IF k = 1 THEN patch_in.text ELSE patch_out[k - 1].new_text

IsSuffix(s, t) == Len(s) <= Len(t) /\ SubSeq(t, Len(t) - Len(s) + 1, Len(t)) = s

\* C6: a successful replacement is at the first heading whose command and
\* title are exactly the requested ones: such a heading exists (a heading
\* whose title only shares a prefix is never the match), all text up to the
\* end of that heading is kept, and every later heading of the same command
\* is kept together with all text after it.
Thm_C6_FirstExactMatchOnly ==
    \A k \in 1..Len(patch_out) :
        patch_out[k].count = 1 =>
            LET t == PatchInput(k)
                r == patch_out[k].new_text
                cmd == patch_in.heading_command
                hs == ExactHeadings(t, cmd, patch_in.section_title)
            IN  /\ hs # {}
                /\ LET i0 == Min(hs)
                       h == i0 + ExactHeadingLen(t, i0, cmd, patch_in.section_title)
                   IN  /\ Len(r) >= h - 1
                       /\ SubSeq(r, 1, h - 1) = SubSeq(t, 1, h - 1)
                       /\ \A j \in h..Len(t) :
                             CommandAt(t, j, cmd) =>
                                 /\ IsSuffix(SubSeq(t, j, Len(t)), r)
                                 /\ Len(r) - (Len(t) - j + 1) >= h - 1

\* a prefix-titled heading before the match, an identical heading after it,
\* and a body that did change
Wit_C6 ==
    /\ Len(patch_out) >= 1
    /\ patch_out[1].count = 1
    /\ patch_out[1].new_text # patch_in.text
    /\ patch_in.section_title = <<"A">>
    /\ LET t == patch_in.text
           hs == ExactHeadings(t, patch_in.heading_command, <<"A">>)
       IN  /\ Cardinality(hs) >= 2
           /\ \E j \in 1..Len(t) :
                 /\ j < Min(hs)
                 /\ ExactHeadingLen(t, j, patch_in.heading_command, <<"A", ".">>) > 0

\* C7 (as claimed): the second application of the patch with the same
\* arguments returns the text the first application returned.
CE_C7_Idempotent ==
    patch_pc = "done" => patch_out[2].new_text = patch_out[1].new_text

\* C8: when the section is found the result is the input with only the body
\* span replaced: the text up to the end of the header (the heading and the
\* white space after it, group 1 of the pattern) is kept, the body is the
\* stripped new body and one newline, and the text from the next
\* heading-level marker on is kept.
Thm_C8_OnlyBodyReplaced ==
    \A k \in 1..Len(patch_out) :
        patch_out[k].count = 1 =>
            LET t == PatchInput(k)
                r == patch_out[k].new_text
                cmd == patch_in.heading_command
                hs == ExactHeadings(t, cmd, patch_in.section_title)
                i0 == Min(hs)
                h == i0 + ExactHeadingLen(t, i0, cmd, patch_in.section_title)
                b == Min({x \in h..(Len(t) + 1) : x = Len(t) + 1 \/ ~IsSpace(t[x])})
                stops == {e \in b..(Len(t) + 1) : MarkerAt(t, e, cmd)}
                body == Strip(patch_in.new_section_body)
            IN  /\ hs # {}
                /\ stops # {}
                /\ r = SubSeq(t, 1, b - 1) \o body \o <<NL>>
                       \o SubSeq(t, Min(stops), Len(t))
                /\ (body # <<>> => ~IsSpace(body[1]) /\ ~IsSpace(body[Len(body)]))

\* a section Experience-like body replaced in front of a following heading
\* with its own body, the new body given with surrounding white space
Wit_C8 ==
    /\ Len(patch_out) >= 1
    /\ patch_out[1].count = 1
    /\ patch_in.new_section_body = <<NL, "y", " ", NL>>
    /\ patch_in.text = Heading(s_section, FALSE, <<"A">>) \o <<"x">>
                       \o Heading(s_section, FALSE, <<"A", ".">>)
    /\ patch_in.section_title = <<"A">>
    /\ patch_out[1].new_text # patch_in.text

\* C17 (as claimed): when the first heading with the requested command and
\* title is followed by no heading-level marker, the section is still found
\* and its body, which runs to the end of the text, is replaced.
CE_C17_BodyToEndOfText ==
    \A k \in 1..Len(patch_out) :
        LET t == PatchInput(k)
            r == patch_out[k].new_text
            cmd == patch_in.heading_command
            hs == ExactHeadings(t, cmd, patch_in.section_title)
        IN  hs # {} =>
                LET i0 == Min(hs)
                    h == i0 + ExactHeadingLen(t, i0, cmd, patch_in.section_title)
                    b == Min({x \in h..(Len(t) + 1) : x = Len(t) + 1 \/ ~IsSpace(t[x])})
                IN  (\A e \in h..(Len(t) + 1) : ~MarkerAt(t, e, cmd)) =>
                        /\ patch_out[k].count = 1
                        /\ r = SubSeq(t, 1, b - 1)
                               \o Strip(patch_in.new_section_body) \o <<NL>>

----------------------------------------------------------------------------
(* Properties of the tool calls                                            *)

IsPush(entry) == entry.cmd[2] = "push"
IsCommit(entry) == entry.cmd[2] = "commit"

\* the push commands of the call so far, in order
Pushes == SelectSeq(log, IsPush)

Committed == \E i \in 1..Len(log) : IsCommit(log[i]) /\ log[i].result.returncode = 0

Publishing == call.tool \in {"update_overleaf_file", "update_overleaf_section"}

\* C1 (as claimed): once a tool call has ended, the temporary directory it
\* made is deleted and the process keeps no reference to it.
CE_C1_WorkspaceDeleted ==
    pc = "idle" => disk = {} /\ TMPDIRS = <<>>

\* C2: after a successful commit one push to main is made; a push to master
\* is made exactly when the push to main failed, and once; a call makes at
\* most two pushes, and when main fails and master succeeds the call returns
\* success after the two pushes.
Thm_C2_PushFallback ==
    /\ Len(Pushes) <= 2
    /\ Len(Pushes) >= 1 =>
          /\ Committed
          /\ Pushes[1].cmd = <<"git", "push", "origin", "main">>
    /\ Len(Pushes) = 2 =>
          /\ Pushes[1].result.returncode # 0
          /\ Pushes[2].cmd = <<"git", "push", "origin", "master">>
    /\ (pc = "done" /\ Publishing /\ Committed) =>
          /\ Len(Pushes) >= 1
          /\ Pushes[1].result.returncode # 0 => Len(Pushes) = 2
          /\ (Len(Pushes) = 2 /\ Pushes[2].result.returncode = 0) => ret = success

Wit_C2 ==
    /\ pc = "done"
    /\ Len(Pushes) = 2
    /\ Pushes[1].result.returncode # 0
    /\ Pushes[2].result.returncode = 0
    /\ ret = success

\* C3 (as claimed): whatever fails, a tool call ends by returning a value;
\* no exception leaves the handler.
CE_C3_FailuresAreReturned ==
    pc = "done" => ret.kind = "return"

\* C4: when the commit succeeded and both pushes failed, the call ends in a
\* failure that carries the command, exit code, standard output and standard
\* error of the second push; it does not report success and there is no
\* third push.
Thm_C4_SecondPushDiagnostics ==
    (/\ pc = "done"
     /\ Len(Pushes) >= 2
     /\ Pushes[1].result.returncode # 0
     /\ Pushes[2].result.returncode # 0) =>
        /\ Committed
        /\ Len(Pushes) = 2
        /\ ret # success
        /\ ret.text = "Command failed"
        /\ ret.detail.cmd = Pushes[2].cmd
        /\ ret.detail.returncode = Pushes[2].result.returncode
        /\ ret.detail.stdout = Pushes[2].result.stdout
        /\ ret.detail.stderr = Pushes[2].result.stderr

\* both pushes failed, each with its own diagnostics
Wit_C4 ==
    /\ pc = "done"
    /\ Len(Pushes) = 2
    /\ Pushes[1].result.returncode # 0
    /\ Pushes[2].result.returncode # 0
    /\ Pushes[1].result # Pushes[2].result

Cloned == Len(log) >= 1 /\ log[1].result.returncode = 0

\* C5: update_overleaf_section on a file with no heading of the given
\* command and exactly the given title returns "section not found", leaves
\* the file as it was cloned, and runs no git command after the clone.
Thm_C5_SectionNotFound ==
    (/\ pc = "done"
     /\ call.tool = "update_overleaf_section"
     /\ Cloned
     /\ head[call.path] # None
     /\ ExactHeadings(head[call.path], call.heading_command,
                      call.section_title) = {}) =>
        /\ ret = Returned("Section not found. No changes made.",
                          <<call.section_title, call.heading_command, call.path>>)
        /\ work = head
        /\ head = remote
        /\ Len(log) = 1

\* the file has headings, none with the requested title
Wit_C5 ==
    /\ pc = "done"
    /\ call.tool = "update_overleaf_section"
    /\ Cloned
    /\ head[call.path] = doc_sections
    /\ call.section_title = <<"B">>
    /\ ret.text = "Section not found. No changes made."

BadConfiguration ==
    \/ Falsy(OVERLEAF_GIT_URL)
    \/ Falsy(OVERLEAF_TOKEN)
    \/ ~startswith(OVERLEAF_GIT_URL, s_https)

\* C9: with the URL missing, the token missing or empty, or a URL that does
\* not start with https://, no git command is ever run, no temporary
\* directory is made, nothing is read, written or published, and the call
\* returns the configuration error as its result.
Thm_C9_ConfigurationError ==
    BadConfiguration =>
        /\ log = <<>>
        /\ TMPDIRS = <<>>
        /\ disk = {}
        /\ pc \in {"idle", "clone_check", "done"}
        /\ pc = "done" =>
              /\ ret.kind = "return"
              /\ ret.text = "Git clone failed"
              /\ ret.detail.type = "RuntimeError"
              /\ ret.detail.text \in {"Missing Overleaf configuration",
                                      "OVERLEAF_GIT_URL must start with https://"}

\* a call has ended on a URL with the http scheme and a token that is set
Wit_C9 ==
    /\ pc = "done"
    /\ ~Falsy(OVERLEAF_GIT_URL)
    /\ ~Falsy(OVERLEAF_TOKEN)
    /\ ~startswith(OVERLEAF_GIT_URL, s_https)
    /\ call.tool = "update_overleaf_file"
    /\ ret.text = "Git clone failed"

\* host and port of the base URL as written: the authority after its last "@"
HostPortAsWritten(url) ==
    LET n == urlparse(url).netloc
    IN  SubSeq(n, LastIndexOf(n, "@") + 1, Len(n))

\* a well-formed https URL: a host, and no port or a decimal port number
WellFormedUrl(url) ==
    /\ startswith(url, s_https)
    /\ urlparse(url).error = NoError
    /\ hostinfo(urlparse(url).netloc).hostname # <<>>
    /\ LET p == hostinfo(urlparse(url).netloc).port
       IN  /\ \A i \in 1..Len(p) : p[i] \in Digits
           /\ Len(p) <= 4
           /\ LastIndexOf(HostPortAsWritten(url), ":") # Len(HostPortAsWritten(url))

\* C10 (as claimed): for a well-formed https URL and a token that is set,
\* the authenticated URL is https://git:<percent-encoded token>@ followed by
\* the host and port exactly as the base URL writes them, and the path.
CE_C10_HostAndPortPreserved ==
    (pc = "clone_run" /\ WellFormedUrl(OVERLEAF_GIT_URL)) =>
        auth_url = s_https \o <<"g","i","t",":">> \o quote(OVERLEAF_TOKEN) \o <<"@">>
                   \o HostPortAsWritten(OVERLEAF_GIT_URL)
                   \o urlparse(OVERLEAF_GIT_URL).path

\* the commit of the call, when it has run one
CommitEntries == SelectSeq(log, IsCommit)

\* C11: when the content written equals the last commit of the clone and git
\* commit answers "nothing to commit", update_overleaf_file and
\* update_overleaf_section return their "No changes to commit" string, and
\* neither push has been made.
Thm_C11_NothingToCommit ==
    (/\ Publishing
     /\ CommitEntries # <<>>
     /\ CommitEntries[1].result = NothingToCommit) =>
        /\ work = head
        /\ Pushes = <<>>
        /\ pc = "done"
        /\ ret = no_changes
        /\ remote = head

\* a section replaced by the body it already had: nothing to commit
Wit_C11 ==
    /\ pc = "done"
    /\ call.tool = "update_overleaf_section"
    /\ call.new_section_body = <<"x">>
    /\ CommitEntries # <<>>
    /\ CommitEntries[1].result = NothingToCommit
    /\ ret = Returned("No changes to commit after section replacement.", <<>>)

\* C12 (as claimed): after a successful clone read_overleaf_file returns one
\* of three values and raises nothing: the "does not exist" string when the
\* path is absent, the content of the file as the repository holds it when
\* raw is true, and otherwise the preview of that content.
CE_C12_ReadResults ==
    (pc = "done" /\ call.tool = "read_overleaf_file" /\ Cloned) =>
        /\ ret.kind = "return"
        /\ ~exists(call.path) =>
              ret = Returned("File does not exist in the Overleaf project.",
                             call.path)
        /\ (call.path \in Tree /\ call.raw) =>
              ret = Returned("{content}", head[call.path])
        /\ (call.path \in Tree /\ ~call.raw) =>
              ret = Returned("{preview}", latex_preview(head[call.path]))

CloneFailed == Len(log) >= 1 /\ log[1].result.returncode # 0

\* C13: when git clone exits non-zero, the call returns (as a string, or for
\* list_overleaf_files as a list of one string) "Git clone failed" with the
\* RuntimeError of run, which carries the exit code and all of the standard
\* output and standard error of git; no file of a working copy is read or
\* written and the clone stays the only git command of the call.
Thm_C13_CloneFailure ==
    CloneFailed =>
        /\ pc = "done"
        /\ Len(log) = 1
        /\ log[1].cmd[2] = "clone"
        /\ work = None
        /\ head = None
        /\ ret = clone_failed(call.tool, CommandFailed(log[1].cmd, log[1].result))
        /\ ret.kind = "return"
        /\ ret.detail.returncode = log[1].result.returncode
        /\ ret.detail.stdout = log[1].result.stdout
        /\ ret.detail.stderr = log[1].result.stderr

\* the clone of an update_overleaf_section call failed with exit code 128
Wit_C13 ==
    /\ CloneFailed
    /\ call.tool = "update_overleaf_section"
    /\ log[1].result.returncode = 128
    /\ ret.detail.stderr = "err2"

----------------------------------------------------------------------------
(* Properties of tool calls running at the same time                       *)

\* call t has its directory and has not yet produced its result
Working(t) == threads[t].pc \in {"check", "init", "append", "return", "use"}

\* C15 (as claimed): however the steps of calls running at the same time
\* interleave, two calls at work never have the same directory, and the
\* directory of a call at work exists.
CE_C15_WorkspaceOwned ==
    \A t \in DOMAIN threads :
        Working(t) =>
            /\ threads[t].tmpdir \in disk
            /\ \A u \in DOMAIN threads :
                  (u # t /\ Working(u)) => threads[u].tmpdir # threads[t].tmpdir

\* the git subcommands of a publishing call, in the order of the source
PublishSteps == <<"clone", "config", "config", "add", "commit", "push", "push">>

\* C16: update_overleaf_file and update_overleaf_section run, after the
\* clone, git config user.name, git config user.email, git add <path>,
\* git commit, git push, in this order and each in the cloned directory; a
\* command up to the commit is run only when the one before it exited 0; git
\* add names the caller's path and nothing else; a push is run only after a
\* commit that exited 0.
Thm_C16_PublishOrder ==
    Publishing =>
        /\ Len(log) <= Len(PublishSteps)
        /\ \A i \in 1..Len(log) : log[i].cmd[2] = PublishSteps[i]
        /\ \A i \in 2..Len(log) : log[i].cwd = repo_dir
        /\ \A i \in 1..(Len(log) - 1) : i <= 5 => log[i].result.returncode = 0
        /\ Len(log) >= 2 => log[2].cmd[3] = "user.name"
        /\ Len(log) >= 3 => log[3].cmd[3] = "user.email"
        /\ Len(log) >= 4 => log[4].cmd = <<"git", "add", call.path>>
        /\ Pushes # <<>> => Committed

\* a file in a new directory published with all six commands succeeding
Wit_C16 ==
    /\ pc = "done"
    /\ call.tool = "update_overleaf_file"
    /\ call.path = new_tex
    /\ Len(log) = 6
    /\ \A i \in 1..6 : log[i].result.returncode = 0
    /\ ret = success

\* C18 (as claimed): the "No changes to commit" string is returned only when
\* git commit found nothing to commit: the working copy equals the cloned
\* commit and git answered so.
CE_C18_NoChangesOnlyWhenNothingToCommit ==
    (pc = "done" /\ Publishing /\ ret = no_changes) =>
        /\ CommitEntries # <<>>
        /\ CommitEntries[1].result = NothingToCommit
        /\ work = head

\* text s occurs in text t
Occurs(s, t) == \E i \in 1..(Len(t) - Len(s) + 1) : HasAt(t, i, s)

\* C19 (as claimed): the value a call returns does not hold the token, as it
\* is or percent-encoded; in particular the "Git clone failed" value, whose
\* message names the command run, does not.
CE_C19_TokenNotInResult ==
    (/\ pc = "done"
     /\ ret.kind = "return"
     /\ ret.text = "Git clone failed"
     /\ ~Falsy(OVERLEAF_TOKEN)) =>
        (Len(ret.detail.cmd) >= 3 =>
            /\ ~Occurs(OVERLEAF_TOKEN, ret.detail.cmd[3])
            /\ ~Occurs(quote(OVERLEAF_TOKEN), ret.detail.cmd[3]))

Reading == call.tool \in {"read_overleaf_file", "list_overleaf_files"}

\* C20: read_overleaf_file and list_overleaf_files run git for the clone
\* only (no config, add, commit or push), and the working copy stays as it
\* was cloned: no file in it is written.
Thm_C20_ReadOnly ==
    Reading =>
        /\ Len(log) <= 1
        /\ \A i \in 1..Len(log) : log[i].cmd[2] = "clone"
        /\ Pushes = <<>>
        /\ CommitEntries = <<>>
        /\ Cloned => (work = head /\ head = remote)
        /\ pc \in {"clone_check", "clone_mktemp", "clone_run", "read", "list", "done"}

\* a listing has returned the files of a cloned repository
Wit_C20 ==
    /\ pc = "done"
    /\ call.tool = "list_overleaf_files"
    /\ Cloned
    /\ ret.kind = "return"
    /\ ret.text = "{file_paths}"
    /\ Len(ret.detail) = 2

----------------------------------------------------------------------------
(* Properties of the preview, stated rule by rule on the lines of the text *)

\* the line is dropped: empty, a comment, a class declaration, a package
\* import, or the begin or end of the document
DropLine(s) ==
    \/ s = <<>>
    \/ \E marker \in { <<"%">>,
                       <<BS, "d","o","c","u","m","e","n","t","c","l","a","s","s">>,
                       <<BS, "u","s","e","p","a","c","k","a","g","e">>,
                       <<BS, "b","e","g","i","n","{","d","o","c","u","m","e","n","t","}">>,
                       <<BS, "e","n","d","{","d","o","c","u","m","e","n","t","}">> } :
          HasAt(s, 1, marker)

\* the openings \cmd{ and \cmd*{ of the recognised heading commands
HeadingOpenings ==
    { <<BS>> \o cmd \o star \o <<"{">> :
        cmd \in { s_chapter, s_section, s_subsection, s_subsubsection, s_cvsection },
        star \in { <<>>, <<"*">> } }

\* the line starts with a recognised heading command and a braced title
HeadingLine(s) ==
    \E o \in HeadingOpenings :
        HasAt(s, 1, o) /\ \E j \in (Len(o) + 1)..Len(s) : s[j] = "}"

\* the text between the braces of a heading line
BracedTitle(s) ==
    LET o == CHOOSE x \in HeadingOpenings : HasAt(s, 1, x)
        close == Min({j \in (Len(o) + 1)..Len(s) : s[j] = "}"})
    IN  SubSeq(s, Len(o) + 1, close - 1)

Dashes(n) == [i \in 1..n |-> "-"]

\* what the rules give for one line; trimmed says whether the title and the
\* remainder of an item line are taken without the white space around them
RuleOutput(line, trimmed) ==
    LET s == Strip(line)
    IN  IF DropLine(s) THEN <<>>
        ELSE IF HeadingLine(s)
        THEN LET title == IF trimmed THEN Strip(BracedTitle(s)) ELSE BracedTitle(s)
             IN  << <<>>, upper(title), Dashes(Len(title)) >>
        ELSE IF HasAt(s, 1, s_item)
        THEN LET rest == SubSeq(s, Len(s_item) + 1, Len(s))
             IN  << <<"-", " ">> \o (IF trimmed THEN LStrip(rest) ELSE rest) >>
        ELSE << s >>

\* the rules applied to each line on its own, the outputs put together in
\* the order of the lines, joined and trimmed
Rendering(text, trimmed) ==
    LET lines == splitlines(text)
    IN  Strip(join(Flat([i \in 1..Len(lines) |-> RuleOutput(lines[i], trimmed)])))

Previewed == pc = "done" /\ call.tool = "read_overleaf_file" /\ ~call.raw
             /\ Cloned /\ call.path \in Tree

\* C21 (as claimed): the preview is the joined and trimmed output of the
\* rules drop, heading, item, pass-through applied line by line, where a
\* heading gives a blank line, the upper-cased title and as many dashes as
\* the title is long, and an item gives "- " and the remainder of the line.
CE_C21_PreviewRules ==
    Previewed =>
        ret = Returned("{preview}", Rendering(read_text(head[call.path]), FALSE))

\* C21 (amended): as claimed, with the title of a heading taken without the
\* white space around it (for the upper-cased line and for the number of
\* dashes) and the remainder of an item line without its leading white
\* space.
Thm_C21_PreviewRules ==
    Previewed =>
        ret = Returned("{preview}", Rendering(read_text(head[call.path]), TRUE))

\* a heading with white space around its title, then an item with two
\* spaces after the marker
Wit_C21 ==
    /\ Previewed
    /\ head[call.path] = <<BS>> \o s_section \o <<"{", " ", "a", " ", "b", " ", "}">>
                         \o <<NL>> \o s_item \o <<" ", " ", "y">>
    /\ ret.detail = <<"A", " ", "B", NL, "-", "-", "-", NL, "-", " ", "y">>

=============================================================================
